---- MODULE Spec2Model ----
(***************************************************************************)
(* The batch OCR flow of app_b.py (Streamlit front-end of the Mistral      *)
(* batch API): encode the uploaded images, write the JSONL descriptor to   *)
(* "batch_file.jsonl", upload it, create the batch job, poll it, and       *)
(* download the results.  Every Streamlit session runs main() in a thread  *)
(* of the same server process, so the sessions share the working           *)
(* directory and with it the file "batch_file.jsonl".                      *)
(***************************************************************************)
EXTENDS Integers, Sequences, FiniteSets, TLC

\* ---------------------------------------------------------------- bounds
\* Most files of one upload (SpecBuild); 11 files reach a two-digit custom_id.
MaxFiles == 11
\* Most status fetches of one run that the model follows.
MaxPolls == 4

\* ------------------------------------------------------------- constants
Runs == {1, 2}
None == "None"
\* batch_data and created_job before the service has answered.
NoId == 0
\* file_content before the download has returned.
NoContent == <<>>
\* "batch_file.jsonl": whether it exists, and its lines.
NoFile == [exists |-> FALSE, lines |-> <<>>]
File(lines) == [exists |-> TRUE, lines |-> lines]

\* Uploaded images, as byte sequences (the empty file included).
Blobs == << <<>>, <<77>>, <<77, 97>>, <<77, 97, 110>>, <<255, 0, 16, 131>> >>

\* ------------------------------------------------------ encode_image_data
B64Chars ==
  << "A","B","C","D","E","F","G","H","I","J","K","L","M","N","O","P",
     "Q","R","S","T","U","V","W","X","Y","Z","a","b","c","d","e","f",
     "g","h","i","j","k","l","m","n","o","p","q","r","s","t","u","v",
     "w","x","y","z","0","1","2","3","4","5","6","7","8","9","+","/" >>

Sextet(n) == B64Chars[n + 1]

RECURSIVE b64encode(_)
b64encode(bs) ==
  IF Len(bs) = 0 THEN <<>>
  ELSE IF Len(bs) = 1 THEN
    << Sextet(bs[1] \div 4), Sextet((bs[1] % 4) * 16), "=", "=" >>
  ELSE IF Len(bs) = 2 THEN
    << Sextet(bs[1] \div 4), Sextet((bs[1] % 4) * 16 + (bs[2] \div 16)),
       Sextet((bs[2] % 16) * 4), "=" >>
  ELSE
    << Sextet(bs[1] \div 4), Sextet((bs[1] % 4) * 16 + (bs[2] \div 16)),
       Sextet((bs[2] % 16) * 4 + (bs[3] \div 64)), Sextet(bs[3] % 64) >>
    \o b64encode(SubSeq(bs, 4, Len(bs)))

\* base64.b64encode(image_bytes).decode("utf-8"): no check of the input.
encode_image_data(image_bytes) == b64encode(image_bytes)

\* f"data:image/jpeg;base64,{base64_img}"
DataUrl(image_bytes) ==
  <<"data:image/jpeg;base64,">> \o encode_image_data(image_bytes)

\* The loop of main over uploaded_files: one data URL per file, in order.
EncodeAll(files) == [i \in 1..Len(files) |-> DataUrl(files[i])]

\* ------------------------------------------------------ create_batch_file
Digits == <<"0","1","2","3","4","5","6","7","8","9">>

\* str(index) of a non-negative integer: its decimal digits.
RECURSIVE Str(_)
Str(n) == IF n < 10 THEN <<Digits[n + 1]>>
          ELSE Str(n \div 10) \o <<Digits[(n % 10) + 1]>>

\* Entry with an identifier that keeps only the last digit of the index.
EntryLastDigit(index, url) ==
  [ custom_id |-> Str(index % 10),
    body |-> [ document |-> [ type |-> "image_url", image_url |-> url ],
               include_image_base64 |-> FALSE ] ]

\* One entry of the descriptor; index is enumerate's zero-based index.
Entry(index, url) ==
  [ custom_id |-> Str(index),
    body |-> [ document |-> [ type |-> "image_url", image_url |-> url ],
               include_image_base64 |-> FALSE ] ]

\* The lines create_batch_file writes, one JSON object per line.
BatchLines(image_urls) ==
  [i \in 1..Len(image_urls) |-> Entry(i - 1, image_urls[i])]

\* A buffered writer that opened the file with 'w' flushes its lines from
\* offset 0: what another writer put beyond them stays in the file.
Overwrite(old, lines) ==
  IF Len(old) > Len(lines)
    THEN lines \o SubSeq(old, Len(lines) + 1, Len(old))
    ELSE lines

\* ------------------------------------------------------------ remote job
NonTerminal == {"QUEUED", "RUNNING"}
Statuses == {"QUEUED", "RUNNING", "COMPLETED", "FAILED", "CANCELLED"}

\* <<total_requests, succeeded_requests, failed_requests>> of a snapshot.
Counts == { <<0, 0, 0>>, <<3, 0, 0>>, <<3, 2, 0>>, <<3, 1, 2>>, <<3, 3, 0>> }

\* output_file of a snapshot: missing, empty, or the id of an artifact.
OutRefs == {None, "", "out-file"}

Snap(status, c, out) ==
  [ status |-> status, total_requests |-> c[1], succeeded_requests |-> c[2],
    failed_requests |-> c[3], output_file |-> out ]

\* retrieved_job before the first fetch: no status yet.
NoJob == Snap(None, <<0, 0, 0>>, None)

\* What batch.jobs.get may return.  output_file is read only of a
\* COMPLETED snapshot, so the other snapshots carry None.
Snapshots ==
  { Snap(s, c, None) : s \in Statuses \ {"COMPLETED"}, c \in Counts }
  \cup { Snap("COMPLETED", c, o) : c \in Counts, o \in OutRefs }

\* What files.download may return: lines of the result artifact, a line
\* being a JSON object or text json.loads rejects.
ResultLine(id, isJson) == [custom_id |-> Str(id), json |-> isJson]
Contents ==
  { << ResultLine(2, TRUE), ResultLine(0, TRUE), ResultLine(1, TRUE) >>,
    << ResultLine(0, TRUE), ResultLine(1, FALSE) >> }

\* round((succeeded + failed) / total * 100, 2), in hundredths of a percent,
\* rounded half to even; total is not 0.
PercentDone(total, succeeded, failed) ==
  LET n == (succeeded + failed) * 10000
      q == n \div total
      r2 == 2 * (n % total)
  IN  IF r2 > total \/ (r2 = total /\ q % 2 = 1) THEN q + 1 ELSE q

\* PollAgain that leaves the loop on QUEUED.
PollAgainOnlyRunning(status) == status = "RUNNING"
\* PollAgain that leaves the loop on COMPLETED alone.
PollAgainUnlessCompleted(status) == status # "COMPLETED"

\* retrieved_job.status in ["QUEUED", "RUNNING"]: the loop goes on.
PollAgain(status) == status \in {"QUEUED", "RUNNING"}

\* JobCompleted that takes every status but FAILED for success.
JobCompletedUnlessFailed(status) == status # "FAILED"

\* retrieved_job.status == "COMPLETED": the results are downloaded.
JobCompleted(status) == status = "COMPLETED"

\* ----------------------------------------------------------------- state
VARIABLES
  pc,             \* where each run of main is
  uploaded_files, \* the files of the run's file_uploader
  image_urls,     \* the run's data URLs
  fs,             \* the file "batch_file.jsonl"
  nextId,         \* the remote service's next artifact or job id
  batch_data,     \* id of the run's uploaded descriptor
  created_job,    \* id of the run's batch job
  retrieved_job,  \* the run's last fetched job status
  file_content,   \* the run's downloaded results
  page,           \* what the run has written to its page, in order
  calls,          \* the remote operations the run has invoked, in order
  error           \* the exception that ended the run, or None

vars == << pc, uploaded_files, image_urls, fs, nextId, batch_data,
           created_job, retrieved_job, file_content, page, calls, error >>

Init ==
  /\ pc = [r \in Runs |-> "idle"]
  /\ uploaded_files = [r \in Runs |-> <<>>]
  /\ image_urls = [r \in Runs |-> <<>>]
  /\ fs = NoFile
  /\ nextId = 1
  /\ batch_data = [r \in Runs |-> NoId]
  /\ created_job = [r \in Runs |-> NoId]
  /\ retrieved_job = [r \in Runs |-> NoJob]
  /\ file_content = [r \in Runs |-> NoContent]
  /\ page = [r \in Runs |-> <<>>]
  /\ calls = [r \in Runs |-> <<>>]
  /\ error = [r \in Runs |-> None]

\* The elements of a page: st.write, st.success, st.error, st.json and
\* st.download_button, each a record with its kind.
Text(t) == [kind |-> "write", text |-> t]
TextId(t, id) == [kind |-> "write", text |-> t, id |-> id]
Write(r, msgs) == page' = [page EXCEPT ![r] = @ \o msgs]
Call(r, op, arg) == calls' = [calls EXCEPT ![r] = Append(@, <<op, arg>>)]
Goto(r, loc) == pc' = [pc EXCEPT ![r] = loc]
\* An exception nothing catches ends the run; Streamlit shows it.
Raise(r, exc) ==
  /\ pc' = [pc EXCEPT ![r] = "crashed"]
  /\ error' = [error EXCEPT ![r] = exc]

NumCalls(r, op) == Cardinality({i \in 1..Len(calls[r]) : calls[r][i][1] = op})

\* -------------------------------------------------------------- actions
\* The user has uploaded files (a non-empty list) and clicks the button.
RunBatchOCR(r, files) ==
  /\ pc[r] = "idle"
  /\ Len(files) > 0
  /\ uploaded_files' = [uploaded_files EXCEPT ![r] = files]
  /\ Write(r, <<Text("Encoding images in base64...")>>)
  /\ Goto(r, "encode")
  /\ UNCHANGED << image_urls, fs, nextId, batch_data, created_job,
                  retrieved_job, file_content, calls, error >>

\* 1) every file is read and encoded; nothing is rejected.
Encode(r) ==
  /\ pc[r] = "encode"
  /\ image_urls' = [image_urls EXCEPT ![r] = EncodeAll(uploaded_files[r])]
  /\ Goto(r, "open")
  /\ UNCHANGED << uploaded_files, fs, nextId, batch_data, created_job,
                  retrieved_job, file_content, page, calls, error >>

\* 2) create_batch_file: open(output_file, 'w') creates or truncates.
OpenBatchFile(r) ==
  /\ pc[r] = "open"
  /\ fs' = File(<<>>)
  /\ Goto(r, "write")
  /\ UNCHANGED << uploaded_files, image_urls, nextId, batch_data,
                  created_job, retrieved_job, file_content, page, calls,
                  error >>

\* create_batch_file: the lines are written and the file is closed.
WriteBatchFile(r) ==
  /\ pc[r] = "write"
  /\ fs' = File(Overwrite(fs.lines, BatchLines(image_urls[r])))
  /\ Write(r, << Text("Created JSONL batch file with OCR requests."),
                 Text("Uploading batch file to Mistral...") >>)
  /\ Goto(r, "upload")
  /\ UNCHANGED << uploaded_files, image_urls, nextId, batch_data,
                  created_job, retrieved_job, file_content, calls, error >>

\* 3) client.files.upload of what "batch_file.jsonl" holds now.
UploadAccepted(r) ==
  /\ pc[r] = "upload"
  /\ Call(r, "upload", fs.lines)
  /\ batch_data' = [batch_data EXCEPT ![r] = nextId]
  /\ nextId' = nextId + 1
  /\ Write(r, << TextId("File uploaded with ID:", nextId) >>)
  /\ Goto(r, "create")
  /\ UNCHANGED << uploaded_files, image_urls, fs, created_job,
                  retrieved_job, file_content, error >>

\* UploadRejected that tries the upload again.
UploadRejectedRetry(r) ==
  /\ pc[r] = "upload"
  /\ Call(r, "upload", fs.lines)
  /\ UNCHANGED << pc, uploaded_files, image_urls, fs, nextId, batch_data,
                  created_job, retrieved_job, file_content, page, error >>

\* The service rejects the upload: the client raises.
UploadRejected(r) ==
  /\ pc[r] = "upload"
  /\ Call(r, "upload", fs.lines)
  /\ Raise(r, "upload failed")
  /\ UNCHANGED << uploaded_files, image_urls, fs, nextId, batch_data,
                  created_job, retrieved_job, file_content, page >>

\* 4) client.batch.jobs.create on the uploaded descriptor.
CreateAccepted(r) ==
  /\ pc[r] = "create"
  /\ Call(r, "create_job", batch_data[r])
  /\ created_job' = [created_job EXCEPT ![r] = nextId]
  /\ nextId' = nextId + 1
  /\ Write(r, << TextId("Created batch job with ID:", nextId),
                 Text("Polling job status. This may take a while for large batches...") >>)
  /\ Goto(r, "get")
  /\ UNCHANGED << uploaded_files, image_urls, fs, batch_data,
                  retrieved_job, file_content, error >>

CreateRejected(r) ==
  /\ pc[r] = "create"
  /\ Call(r, "create_job", batch_data[r])
  /\ Raise(r, "create_job failed")
  /\ UNCHANGED << uploaded_files, image_urls, fs, nextId, batch_data,
                  created_job, retrieved_job, file_content, page >>

\* 5) client.batch.jobs.get: the job's status as the service reports it.
GetJob(r, snap) ==
  /\ pc[r] = "get"
  /\ NumCalls(r, "get_job") < MaxPolls
  /\ Call(r, "get_job", created_job[r])
  /\ retrieved_job' = [retrieved_job EXCEPT ![r] = snap]
  /\ Goto(r, "report")
  /\ UNCHANGED << uploaded_files, image_urls, fs, nextId, batch_data,
                  created_job, file_content, page, error >>

GetJobFails(r) ==
  /\ pc[r] = "get"
  /\ NumCalls(r, "get_job") < MaxPolls
  /\ Call(r, "get_job", created_job[r])
  /\ Raise(r, "get_job failed")
  /\ UNCHANGED << uploaded_files, image_urls, fs, nextId, batch_data,
                  created_job, retrieved_job, file_content, page >>

Observation(job) ==
  [ kind |-> "status", status |-> job.status, total |-> job.total_requests,
    succeeded |-> job.succeeded_requests, failed |-> job.failed_requests,
    percent |-> PercentDone(job.total_requests, job.succeeded_requests,
                            job.failed_requests) ]

\* The progress line of the fetched status, then the loop's exit test,
\* the sleep before the next fetch, and after the loop the branch 6).
Report(r) ==
  /\ pc[r] = "report"
  /\ LET job == retrieved_job[r] IN
     IF job.total_requests = 0
       THEN /\ Raise(r, "ZeroDivisionError")
            /\ UNCHANGED page
       ELSE /\ error' = error
            /\ IF PollAgain(job.status)
                 THEN /\ Write(r, <<Observation(job)>>)
                      /\ Goto(r, "get")
                 ELSE IF JobCompleted(job.status)
                   THEN /\ Write(r, << Observation(job),
                               [kind |-> "success",
                                text |-> "Batch job completed. Downloading the results..."] >>)
                        /\ Goto(r, "download")
                   ELSE /\ Write(r, << Observation(job),
                               [kind |-> "error", text |-> "Batch job ended with status:",
                                status |-> job.status] >>)
                        /\ Goto(r, "done")
  /\ UNCHANGED << uploaded_files, image_urls, fs, nextId, batch_data,
                  created_job, retrieved_job, file_content, calls >>

\* client.files.download(file_id=retrieved_job.output_file): the reference
\* is passed on as it is; what comes back is the service's answer.
DownloadReturns(r, content) ==
  /\ pc[r] = "download"
  /\ Call(r, "download", retrieved_job[r].output_file)
  /\ file_content' = [file_content EXCEPT ![r] = content]
  /\ Write(r, <<Text("Download complete. Here is a preview of the results (first 2 lines):")>>)
  /\ Goto(r, "preview")
  /\ UNCHANGED << uploaded_files, image_urls, fs, nextId, batch_data,
                  created_job, retrieved_job, error >>

DownloadFails(r) ==
  /\ pc[r] = "download"
  /\ Call(r, "download", retrieved_job[r].output_file)
  /\ Raise(r, "download failed")
  /\ UNCHANGED << uploaded_files, image_urls, fs, nextId, batch_data,
                  created_job, retrieved_job, file_content, page >>

Head2(lines) == SubSeq(lines, 1, IF Len(lines) < 2 THEN Len(lines) ELSE 2)

\* The preview of lines[:2] (json.loads of each) and the download button.
Preview(r) ==
  /\ pc[r] = "preview"
  /\ LET shown == Head2(file_content[r]) IN
     IF \E i \in 1..Len(shown) : ~shown[i].json
       THEN /\ Raise(r, "JSONDecodeError")
            /\ UNCHANGED page
       ELSE /\ Write(r, [i \in 1..Len(shown) |-> [kind |-> "json", value |-> shown[i]]]
                        \o << [kind |-> "download_button",
                                data |-> file_content[r]] >>)
            /\ Goto(r, "done")
            /\ error' = error
  /\ UNCHANGED << uploaded_files, image_urls, fs, nextId, batch_data,
                  created_job, retrieved_job, file_content, calls >>

\* --------------------------------------------------------- specifications
\* The uploads of the flow specification.
FlowUploads == { <<Blobs[4]>>, <<Blobs[2], Blobs[1], Blobs[5]>> }

Submit(r) ==
  \/ Encode(r)
  \/ OpenBatchFile(r)
  \/ WriteBatchFile(r)
  \/ UploadAccepted(r)
  \/ UploadRejected(r)

\* snaps: the statuses the service may report.
Track(r, snaps) ==
  \/ CreateAccepted(r)
  \/ CreateRejected(r)
  \/ \E snap \in snaps : GetJob(r, snap)
  \/ GetJobFails(r)
  \/ Report(r)
  \/ \E content \in Contents : DownloadReturns(r, content)
  \/ DownloadFails(r)
  \/ Preview(r)

\* One session runs the whole flow.
Next ==
  \/ \E files \in FlowUploads : RunBatchOCR(1, files)
  \/ Submit(1)
  \/ Track(1, Snapshots)

Spec == Init /\ [][Next]_vars

\* The same flow with the job's counts being 0 of 0, 0 of 3 or 3 of 3.
LiveSnapshots ==
  { s \in Snapshots :
      <<s.total_requests, s.succeeded_requests, s.failed_requests>>
        \in { <<0, 0, 0>>, <<3, 0, 0>>, <<3, 3, 0>> } }

NextLive ==
  \/ \E files \in FlowUploads : RunBatchOCR(1, files)
  \/ Submit(1)
  \/ Track(1, LiveSnapshots)

\* main runs on: a run that can take a step takes one.
SpecLive == Init /\ [][NextLive]_vars /\ WF_vars(NextLive)

\* The uploads of the builder specification: every list of up to two
\* files, and for every length up to MaxFiles the lists that cycle
\* through the blobs.
Cycle(n, k) == [i \in 1..n |-> Blobs[((i + k) % Len(Blobs)) + 1]]
BuildUploads ==
  { Cycle(n, k) : n \in 1..MaxFiles, k \in 0..(Len(Blobs) - 1) }
  \cup { <<Blobs[i]>> : i \in 1..Len(Blobs) }
  \cup { <<Blobs[i], Blobs[j]>> : i \in 1..Len(Blobs), j \in 1..Len(Blobs) }

\* One session encodes, builds and uploads.
NextBuild ==
  \/ \E files \in BuildUploads : RunBatchOCR(1, files)
  \/ Submit(1)

SpecBuild == Init /\ [][NextBuild]_vars

\* Two sessions of the same server submit at the same time.
ConcUploads == { <<Blobs[2]>>, <<Blobs[3], Blobs[4]>> }

NextConc ==
  \E r \in Runs :
    \/ \E files \in ConcUploads : RunBatchOCR(r, files)
    \/ Submit(r)

SpecConc == Init /\ [][NextConc]_vars

\* ------------------------------------------------------------ properties
IsObservation(e) == e.kind = "status"
\* The progress observations the run has emitted, in order.
Obs(r) == SelectSeq(page[r], IsObservation)
HasKind(r, k) == \E i \in 1..Len(page[r]) : page[r][i].kind = k
Ended(r) == pc[r] \in {"done", "crashed"}
\* The run is in the polling loop.
Polling(r) == pc[r] \in {"get", "report"}
\* The last fetch has been answered and its progress line has run.
Reported(r) == NumCalls(r, "get_job") > 0 /\ pc[r] # "report"
                 /\ error[r] # "get_job failed"
\* The percent value is (succeeded + failed) / total * 100 to the nearest
\* hundredth.
IsPercentOf(o) ==
  LET d == o.percent * o.total - (o.succeeded + o.failed) * 10000
  IN  o.total > 0 /\ 2 * d <= o.total /\ 2 * d >= 0 - o.total
SameCounts(o, job) ==
  /\ o.status = job.status
  /\ o.total = job.total_requests
  /\ o.succeeded = job.succeeded_requests
  /\ o.failed = job.failed_requests

\* The status sequence of the example: three fetches that show no progress,
\* then COMPLETED with total = 3, succeeded = 3, failed = 0.
ExampleRun(r) ==
  /\ ~Polling(r)
  /\ Len(Obs(r)) = NumCalls(r, "get_job")
  /\ [i \in 1..Len(Obs(r)) |-> Obs(r)[i].status]
       = <<"QUEUED", "RUNNING", "RUNNING", "COMPLETED">>
  /\ \A i \in 1..3 : Obs(r)[i].succeeded = 0 /\ Obs(r)[i].failed = 0
  /\ SameCounts(Obs(r)[4], Snap("COMPLETED", <<3, 3, 0>>, None))
Percents(r) == [i \in 1..Len(Obs(r)) |-> Obs(r)[i].percent]

C2_FailedSurfaced ==
  \A r \in Runs :
    (Reported(r) /\ retrieved_job[r].status = "FAILED")
      => /\ NumCalls(r, "download") = 0
         /\ pc[r] = "done"
         /\ \E i \in 1..Len(page[r]) :
              page[r][i].kind = "error" /\ page[r][i].status = "FAILED"
         /\ Len(Obs(r)) > 0
         /\ SameCounts(Obs(r)[Len(Obs(r))], retrieved_job[r])

\* C4: when a fetched status has total_requests = 0, the progress line
\* raises no division error: it reports 0% and the loop goes on or ends as
\* the status says.
C4_NoDivisionError ==
  \A r \in Runs :
    (Reported(r) /\ retrieved_job[r].total_requests = 0)
      => /\ error[r] # "ZeroDivisionError"
         /\ Len(Obs(r)) = NumCalls(r, "get_job")
         /\ Obs(r)[Len(Obs(r))].percent = 0
         /\ (retrieved_job[r].status \in NonTerminal) = (pc[r] = "get")

\* C5: when the terminal status is COMPLETED and its output_file is empty
\* or missing, the run ends with FetchError, and no result bytes are
\* returned, previewed or offered for download.
C5_FetchError ==
  \A r \in Runs :
    ( /\ retrieved_job[r].status = "COMPLETED"
      /\ retrieved_job[r].output_file \in {None, ""}
      /\ retrieved_job[r].total_requests > 0
      /\ pc[r] \in {"preview", "done", "crashed"} )
      => /\ error[r] = "FetchError"
         /\ pc[r] = "crashed"
         /\ ~HasKind(r, "json")
         /\ ~HasKind(r, "download_button")

Op(r, i) == calls[r][i][1]
Arg(r, i) == calls[r][i][2]

\* C6: in every run the upload precedes job creation, job creation
\* precedes every status fetch, every fetch is of the created job, and the
\* download comes last, right after a fetch of that job that returned
\* COMPLETED: never before or between fetches.
C6_Ordering ==
  \A r \in Runs :
    \A i \in 1..Len(calls[r]) :
      /\ Op(r, i) = "upload" => i = 1
      /\ Op(r, i) = "create_job"
           => i = 2 /\ Op(r, 1) = "upload" /\ Arg(r, i) = batch_data[r]
      /\ Op(r, i) = "get_job"
           => /\ i > 2 /\ Op(r, 2) = "create_job"
              /\ Arg(r, i) = created_job[r]
              /\ Op(r, i - 1) \in {"create_job", "get_job"}
      /\ Op(r, i) = "download"
           => /\ i = Len(calls[r])
              /\ i > 3 /\ Op(r, i - 1) = "get_job"
              /\ Arg(r, i - 1) = created_job[r]
              /\ retrieved_job[r].status = "COMPLETED"
              /\ Obs(r)[Len(Obs(r))].status = "COMPLETED"
              /\ Arg(r, i) = retrieved_job[r].output_file

\* A run has polled twice and then downloaded.
C6_Witness ==
  /\ Len(calls[1]) = 5
  /\ Op(1, 5) = "download"
  /\ pc[1] = "done"

\* C7: upload and create_job are each invoked at most once in a run; a
\* rejected upload ends the run with no job created and no fetch, a
\* rejected job creation ends it with no fetch and no download.
C7_NoRetry ==
  \A r \in Runs :
    /\ NumCalls(r, "upload") <= 1
    /\ NumCalls(r, "create_job") <= 1
    /\ error[r] = "upload failed"
         => pc[r] = "crashed" /\ Len(calls[r]) = 1 /\ Op(r, 1) = "upload"
    /\ error[r] = "create_job failed"
         => /\ pc[r] = "crashed" /\ Len(calls[r]) = 2
            /\ Op(r, 2) = "create_job"
    /\ (pc[r] = "crashed") = (error[r] # None)

\* The job creation of a run was rejected after its upload.
C7_Witness ==
  /\ error[1] = "create_job failed"
  /\ NumCalls(1, "upload") = 1

\* C8: the descriptor a run uploads holds exactly the request records the
\* run built from its own inputs, whatever the other run does.
C8_OwnDescriptor ==
  \A r \in Runs :
    \A i \in 1..Len(calls[r]) :
      Op(r, i) = "upload" => Arg(r, i) = BatchLines(image_urls[r])

\* C9: an empty uploaded file makes the Encoder fail with EncodingError, so
\* no record of it is written to the descriptor and nothing is submitted.
C9_EmptyRejected ==
  \A r \in Runs :
    ( /\ \E i \in 1..Len(uploaded_files[r]) : uploaded_files[r][i] = <<>>
      /\ pc[r] \notin {"idle", "encode"} )
      => /\ error[r] = "EncodingError"
         /\ pc[r] = "crashed"
         /\ fs = NoFile
         /\ calls[r] = <<>>

\* The value of a string of decimal digits.
DigitVal(d) == CHOOSE k \in 0..9 : Digits[k + 1] = d
RECURSIVE DecVal(_)
DecVal(ds) == IF Len(ds) = 0 THEN 0
              ELSE 10 * DecVal(SubSeq(ds, 1, Len(ds) - 1)) + DigitVal(ds[Len(ds)])
\* The run has returned from create_batch_file.
Built(r) == pc[r] \in {"upload", "create", "crashed"}

\* C3: for N image URLs create_batch_file writes exactly N lines; the
\* custom_id of line i is the decimal string of i - 1, so the identifiers
\* are 0..N-1, each exactly once, and line i carries the i-th URL.
C3_Descriptor ==
  \A r \in {1} :
    Built(r) =>
      LET n == Len(image_urls[r])
          line == fs.lines IN
      /\ n = Len(uploaded_files[r])
      /\ fs.exists
      /\ Len(line) = n
      /\ \A i \in 1..n :
           /\ DecVal(line[i].custom_id) = i - 1
           /\ line[i].custom_id[1] = "0" => Len(line[i].custom_id) = 1
           /\ line[i].body.document.image_url = image_urls[r][i]
           /\ line[i].body.document.type = "image_url"
           /\ line[i].body.include_image_base64 = FALSE
      /\ Cardinality({line[i].custom_id : i \in 1..n}) = n

\* A descriptor of MaxFiles lines has been written.
C3_Witness ==
  Built(1) /\ Len(image_urls[1]) = MaxFiles /\ Len(fs.lines) = MaxFiles

\* Every fetch of the run so far returned a status with total_requests > 0.
FetchesNormal(r) == error[r] \notin {"get_job failed", "ZeroDivisionError"}
DownloadAttempted(r) == NumCalls(r, "download") = 1
ResultsDownloaded(r) ==
  \E i \in 1..Len(page[r]) :
    /\ page[r][i].kind = "write"
    /\ page[r][i].text = "Download complete. Here is a preview of the results (first 2 lines):"
FailureReported(r) == HasKind(r, "error")
LastStatus(r) == retrieved_job[r].status

\* C10 as stated, for the jobs whose output_file is present: with every
\* fetch normal, a run that has left the polling loop and ended has either
\* downloaded the results (COMPLETED) or reported the failure (any other
\* status).
C10_TwoOutcomes ==
  \A r \in Runs :
    ( /\ Ended(r) /\ FetchesNormal(r) /\ NumCalls(r, "get_job") > 0
      /\ LastStatus(r) = "COMPLETED"
           => retrieved_job[r].output_file \notin {None, ""} )
      => \/ LastStatus(r) = "COMPLETED" /\ ResultsDownloaded(r)
            /\ ~FailureReported(r)
         \/ LastStatus(r) # "COMPLETED" /\ FailureReported(r)
            /\ ~ResultsDownloaded(r)

C10_Outcome(r) ==
  \/ LastStatus(r) = "COMPLETED" /\ DownloadAttempted(r)
     /\ ~FailureReported(r)
  \/ LastStatus(r) # "COMPLETED" /\ FailureReported(r)
     /\ ~DownloadAttempted(r) /\ pc[r] = "done"

\* C10 amended: with every fetch normal (total_requests > 0), a fetch that
\* returns a status other than QUEUED or RUNNING leads to the run leaving
\* the loop and ending in exactly one of two outcomes, the result download
\* attempted (COMPLETED) or the failure reported (any other status); and
\* the run leaves the loop only on such a status, never while the job
\* reports QUEUED or RUNNING.
C10_Termination ==
  /\ \A r \in {1} :
       (pc[r] = "report" /\ LastStatus(r) \notin NonTerminal
          /\ retrieved_job[r].total_requests > 0)
         ~> (Ended(r) /\ C10_Outcome(r))
  /\ [](\A r \in {1} :
          (~Polling(r) /\ FetchesNormal(r) /\ NumCalls(r, "get_job") > 0)
            => (LastStatus(r) \notin NonTerminal
                /\ (Ended(r) => C10_Outcome(r))))
  /\ [][\A r \in {1} :
          (Polling(r) /\ ~Polling(r)' /\ FetchesNormal(r)')
            => LastStatus(r)' \notin NonTerminal]_vars

\* A run has ended with the failure reported after polling a job that was
\* QUEUED, then RUNNING, then CANCELLED.
C10_Witness ==
  /\ pc[1] = "done"
  /\ FailureReported(1)
  /\ Len(Obs(1)) = 3
  /\ LastStatus(1) = "CANCELLED"

====
